---- MODULE Spec2Model ----
(***************************************************************************)
(* Waveform quantisation, pulse/idle planning, phase-coherence search and  *)
(* sequence-table emission of the M8190A example scripts, as one state     *)
(* machine.  A behaviour runs one script from its inputs to its end.       *)
(*                                                                         *)
(* Units.  Times are integer ticks of half a nanosecond, sample rates are  *)
(* samples per nanosecond, carrier frequencies are MHz, phases are tenths  *)
(* of a degree, samples are numerators over SampleDen.  A control word is  *)
(* the set of its set bit positions (bit 31 does not fit a 32-bit signed   *)
(* integer), so "a | b" is set union.                                      *)
(***************************************************************************)
EXTENDS Integers, Sequences, FiniteSets, TLC

(* ------------------------------ bounds -------------------------------- *)
MaxWfmLen == 390
MaxStart == 2
SampleDen == 4
MaxFs == 2
MaxPwTicks == 400
PriStep == 700
MaxPriIdx == 2
PriBase == 2380
MaxPriOff == 2
MaxCycles == 4600
MaxSeqLen == 6
MaxFreqs == 3
RiseTicks == 40
MaxRows == 16
MaxIqLen == 3
MaxOps == 3
MaxErrors == 2
MaxBank == 3
MaxRoute == 7

(* ------------------------- resolution modes --------------------------- *)
DacModes == {"wpr", "wsp"}
IntxModes == {"intx3", "intx12", "intx24", "intx48"}
AllRes == DacModes \cup IntxModes \cup {"bad"}

\* 'intx' in res.lower()
IsIntx(res) == res \in IntxModes

Gran(res) == IF res = "wpr" THEN 48 ELSE IF res = "wsp" THEN 64 ELSE 24
MinLen(res) == IF res = "wpr" THEN 240 ELSE IF res = "wsp" THEN 320 ELSE 120
BinMult(res) == IF res = "wpr" THEN 8191 ELSE IF res = "wsp" THEN 2047 ELSE 16383
BinShift(res) == IF res = "wpr" THEN 2 ELSE IF res = "wsp" THEN 4 ELSE 1

(* --------------------------- int16 arithmetic -------------------------- *)
RECURSIVE Pow2(_)
Pow2(n) == IF n = 0 THEN 1 ELSE 2 * Pow2(n - 1)

Abs(x) == IF x < 0 THEN -x ELSE x

\* two's-complement wrap of an integer into -32768..32767
Wrap16(v) == ((v + 32768) % 65536) - 32768

\* float -> int conversion of num/den: the fraction is dropped (toward zero)
TruncFloor(num, den) == num \div den
TruncDiv(num, den) == IF num >= 0 THEN num \div den ELSE -((-num) \div den)

\* (mutant: the left shift is left out)
FormatSampleNoShift(num, res) ==
    Wrap16(TruncDiv(BinMult(res) * num, SampleDen))

\* (mutant: the conversion rounds down instead of toward zero)
FormatSampleFloor(num, res) ==
    Wrap16(Wrap16(TruncFloor(BinMult(res) * num, SampleDen)) * Pow2(BinShift(res)))

\* np.array(binMult * wfm, dtype=np.int16) << binShift, for one sample
FormatSample(num, res) ==
    Wrap16(Wrap16(TruncDiv(BinMult(res) * num, SampleDen)) * Pow2(BinShift(res)))

FormatWfm(wfm, res) == [k \in 1..Len(wfm) |-> FormatSample(wfm[k], res)]

Ok(out) == [err |-> "none", out |-> out]
Raise(kind) == [err |-> kind, out |-> <<>>]

\* (mutant: the granularity check is missing)
CheckLenOnly(wfm, res) ==
    IF Len(wfm) < MinLen(res) THEN Raise("LengthError")
    ELSE Ok(FormatWfm(wfm, res))

\* (mutant: granularity is checked before the minimum length)
CheckGranLen(wfm, res) ==
    LET rl == Len(wfm) IN
    IF rl % Gran(res) # 0 THEN Raise("GranularityError")
    ELSE IF rl < MinLen(res) THEN Raise("LengthError")
    ELSE Ok(FormatWfm(wfm, res))

\* the length and granularity checks followed by the binary formatting
CheckLenGran(wfm, res) ==
    LET rl == Len(wfm) IN
    IF rl < MinLen(res) THEN Raise("LengthError")
    ELSE IF rl % Gran(res) # 0 THEN Raise("GranularityError")
    ELSE Ok(FormatWfm(wfm, res))

\* check_wfm of the digital-up-conversion scripts: wpr, wsp and intx<n>
check_wfm(wfm, res) ==
    IF res \in DacModes \/ IsIntx(res) THEN CheckLenGran(wfm, res)
    ELSE Raise("InvalidResolution")

\* check_wfm of the scripts that drive the DAC directly: wpr and wsp only
check_wfm_dac(wfm, res) ==
    IF res \in DacModes THEN CheckLenGran(wfm, res)
    ELSE Raise("InvalidResolution")

(* ------------------------ the M8190A class ---------------------------- *)
\* the attributes of an M8190A object that the waveform check uses; 0 is an
\* attribute that was never assigned
NoSelf == [res |-> "", gran |-> 0, minLen |-> 0, binMult |-> 0, binShift |-> 0,
           intFactor |-> 0, idleGran |-> 0]

\* (mutant: the wsp branch leaves binShift as it was)
check_resolution_stale_shift(s) ==
    IF s.res = "wpr"
    THEN [err |-> "none",
          self |-> [s EXCEPT !.gran = 48, !.minLen = 240, !.binMult = 8191,
                             !.binShift = 2]]
    ELSE IF s.res = "wsp"
    THEN [err |-> "none",
          self |-> [s EXCEPT !.gran = 64, !.minLen = 320, !.binMult = 2047]]
    ELSE IF s.res \in IntxModes
    THEN [err |-> "none",
          self |-> [s EXCEPT !.gran = 24, !.minLen = 120, !.binMult = 16383,
                             !.binShift = 1,
                             !.intFactor = CASE s.res = "intx3" -> 3
                                             [] s.res = "intx12" -> 12
                                             [] s.res = "intx24" -> 24
                                             [] OTHER -> 48,
                             !.idleGran = CASE s.res = "intx3" -> 8
                                            [] s.res = "intx12" -> 2
                                            [] OTHER -> 1]]
    ELSE [err |-> "InvalidResolution", self |-> s]

\* M8190A.check_resolution: populates gran, minLen, binMult and binShift, and
\* intFactor and idleGran in the interpolated modes, from self.res
check_resolution(s) ==
    IF s.res = "wpr"
    THEN [err |-> "none",
          self |-> [s EXCEPT !.gran = 48, !.minLen = 240, !.binMult = 8191,
                             !.binShift = 2]]
    ELSE IF s.res = "wsp"
    THEN [err |-> "none",
          self |-> [s EXCEPT !.gran = 64, !.minLen = 320, !.binMult = 2047,
                             !.binShift = 4]]
    ELSE IF s.res \in IntxModes
    THEN [err |-> "none",
          self |-> [s EXCEPT !.gran = 24, !.minLen = 120, !.binMult = 16383,
                             !.binShift = 1,
                             !.intFactor = CASE s.res = "intx3" -> 3
                                             [] s.res = "intx12" -> 12
                                             [] s.res = "intx24" -> 24
                                             [] OTHER -> 48,
                             !.idleGran = CASE s.res = "intx3" -> 8
                                            [] s.res = "intx12" -> 2
                                            [] OTHER -> 1]]
    ELSE [err |-> "InvalidResolution", self |-> s]

\* np.array(self.binMult * wfm, dtype=np.int16) << self.binShift
FormatWith(wfm, mult, shift) ==
    [k \in 1..Len(wfm) |->
        Wrap16(Wrap16(TruncDiv(mult * wfm[k], SampleDen)) * Pow2(shift))]

\* M8190A.check_wfm: refreshes the attributes, then checks and formats with
\* them; the result and the object as the call leaves it
M8190A_check_wfm(s, wfm) ==
    LET c == check_resolution(s)
        rl == Len(wfm)
    IN  [self |-> c.self,
         ret |-> IF c.err # "none" THEN Raise(c.err)
                 ELSE IF rl < c.self.minLen THEN Raise("LengthError")
                 ELSE IF rl % c.self.gran # 0 THEN Raise("GranularityError")
                 ELSE Ok(FormatWith(wfm, c.self.binMult, c.self.binShift))]

(* --------------------------- sample arrays ---------------------------- *)
\* np.zeros(n)
Zeros(n) == [k \in 1..n |-> 0]

\* np.sin(...) over n points: the sample values are abstracted to eight
\* points per cycle, in SampleDen-ths and within [-1, 1]; ph shifts the start
SinTab == <<0, 3, 4, 3, 0, -3, -4, -3>>
Sine(n, ph) == [k \in 1..n |-> SinTab[((k - 1 + ph) % 8) + 1]]

\* a test waveform: numerators sweeping -SampleDen..SampleDen
Ramp(n, start) ==
    [k \in 1..n |-> ((start + 3 * k) % (2 * SampleDen + 1)) - SampleDen]

\* fs * t in half samples (fs in samples per ns, t in half-ns ticks)
HalfSamples(fs, t) == fs * t
\* int(fs * t)
IntSamples(fs, t) == (fs * t) \div 2

(* ------------------------- CW pulse planner --------------------------- *)
\* (mutant: the remainder is not subtracted from the granularity)
ExtraNoRemainder(pwSamples, res) ==
    IF pwSamples < MinLen(res) THEN MinLen(res) - pwSamples
    ELSE Gran(res)

\* extra samples appended to the pulse: minimum length, else granularity
Extra(pwSamples, res) ==
    IF pwSamples < MinLen(res) THEN MinLen(res) - pwSamples
    ELSE Gran(res) - (pwSamples % Gran(res))

\* (mutant: the end-cap waveform is not subtracted)
IdleNoEndCap(fs, pri, onLen, endLen) == HalfSamples(fs, pri) - 2 * onLen

\* idleSamples = (fs * pri) - len(pulseOn) - len(endWfm), in half samples
IdleHalf(fs, pri, onLen, endLen) == HalfSamples(fs, pri) - 2 * onLen - 2 * endLen

\* idleSamples < 3 * gran / fs with fs in Hz: idleHalf * fs * 10^9 < 6 * gran
MinIdleWarning(idleHalf, fs, res) ==
    idleHalf * fs <= (6 * Gran(res) - 1) \div 1000000000

NoPlan ==
    [err |-> "pending", pwSamples |-> 0, extra |-> 0, onLen |-> 0, endLen |-> 0,
     idleHalf |-> 0, endIdleHalf |-> 0, warned |-> FALSE]

PlanFail(kind) == [NoPlan EXCEPT !.err = kind]

cw_pulse_sequence(fs, cf, pwTime, pri, res) ==
    IF res \notin DacModes THEN PlanFail("UnboundLocalError")
    ELSE
    LET pwSamples == IntSamples(fs, pwTime)
        extra == Extra(pwSamples, res)
        pulseOn == check_wfm_dac(Sine(pwSamples, 0) \o Zeros(extra), res)
        endWfm == check_wfm_dac(Zeros(MinLen(res)), res)
        idle == IdleHalf(fs, pri, Len(pulseOn.out), Len(endWfm.out))
    IN  IF pulseOn.err # "none" THEN PlanFail(pulseOn.err)
        ELSE IF endWfm.err # "none" THEN PlanFail(endWfm.err)
        ELSE [err |-> "none", pwSamples |-> pwSamples, extra |-> extra,
              onLen |-> Len(pulseOn.out), endLen |-> Len(endWfm.out),
              idleHalf |-> idle, endIdleHalf |-> 0,
              warned |-> MinIdleWarning(idle, fs, res)]

(* --------------------- phase-coherence calculator --------------------- *)
\* round(cf * pri * 360, 1) in tenths of a degree: cf in MHz and pri in
\* half-ns ticks give 18 * cf * pri hundredths, which never end in 5
AbsPhase(cf, pri) == (18 * cf * pri + 5) \div 10

\* round(absPhase % 360, 1)
RelPhase(cf, pri) == AbsPhase(cf, pri) % 3600

RECURSIVE Pow2Below(_, _)
\* the largest power of two p * 2^k (k >= 0) that is <= x, for 1 <= p <= x
Pow2Below(p, x) == IF 2 * p <= x THEN Pow2Below(2 * p, x) ELSE p

RECURSIVE Pow2Reach(_, _, _)
\* the smallest power of two q * 2^k (k >= 0) with q * 2^k * d >= x
Pow2Reach(q, d, x) == IF q * d >= x THEN q ELSE Pow2Reach(2 * q, d, x)

RECURSIVE Log2(_)
Log2(p) == IF p <= 1 THEN 0 ELSE 1 + Log2(p \div 2)

\* The double nearest to d/10 is m * 2^-s with 2^52 <= m < 2^53.  Its error
\* is r / (10 * 2^s) with r = 10 m - d 2^s, and |r| follows from the last
\* decimal digit of d * 2^s (2^s ends in 2, 4, 8, 6 as s mod 4 is 1, 2, 3, 0).
DoubleErr(d) ==
    LET pw == IF d >= 10 THEN Pow2Below(1, d \div 10) ELSE 1
        q == IF d >= 10 THEN 1 ELSE Pow2Reach(1, d, 10)
        s == 52 - Log2(pw) + Log2(q)
        t == ((d % 10) * <<6, 2, 4, 8>>[(s % 4) + 1]) % 10
    IN  [pw |-> pw, q |-> q, r |-> IF t < 5 THEN t ELSE 10 - t]

\* (relPhase * cycles % 360) == 0 in IEEE double arithmetic, relPhase = d/10:
\* the exact product must be a multiple P of 360 and the double product must
\* round to P, that is |r| * cycles / (10 * 2^s) <= ulp(P) / 2
WrapsExactly(d, cycles) ==
    \/ d = 0
    \/ /\ (d * cycles) % 3600 = 0
       /\ LET e == DoubleErr(d)
              powP == Pow2Below(1, (d * cycles) \div 10)
          IN  e.r * cycles * e.pw <= 5 * powP * e.q

\* (mutant: the product is compared against half a turn)
LoopCondHalfTurn(d, cycles) == (d * cycles) % 1800 # 0

\* while (relPhase * cycles % 360) != 0
LoopCond(d, cycles) == ~WrapsExactly(d, cycles)

\* (mutant: ties rounded up)
RoundHalfUp(half) == (half + 1) \div 2

\* round(x) of x = half / 2 to the nearest integer, ties to the even one
RoundHalfEven(half) ==
    IF half % 2 = 0 THEN half \div 2
    ELSE IF ((half - 1) \div 2) % 2 = 0 THEN (half - 1) \div 2
    ELSE (half + 1) \div 2

\* (mutant: the phase of the following pulse)
PulsePhaseNext(p, deltaPhi) == (p + 1) * deltaPhi

\* the phase offset of pulse p, p * deltaPhi (times 2 pi / 360 in the sine)
PulsePhase(p, deltaPhi) == p * deltaPhi

\* the table index of the start phase of pulse p (45 degree steps)
PhaseShift(phase) == (phase % 3600) \div 450

\* pulses[p]: the quantised pulse, plus the marker on its first half when
\* p == 0 (marker = ones(len/2) then zeros(len/2))
Marker(n) == [k \in 1..(2 * (n \div 2)) |-> IF k <= n \div 2 THEN 1 ELSE 0]
CohPulse(pwSamples, extra, phase, res) ==
    check_wfm_dac(Sine(pwSamples, PhaseShift(phase)) \o Zeros(extra), res)

(* ----------------------- IQ envelope and planner ---------------------- *)
Shapes == {"rectangular", "trapezoidal", "raised-cosine"}

\* int(res.lower().split('x')[-1])
IntFactor(res) ==
    CASE res = "intx3" -> 3 [] res = "intx12" -> 12 [] res = "intx24" -> 24
      [] OTHER -> 48

IdleGran(res) ==
    CASE res = "intx3" -> 8 [] res = "intx12" -> 2 [] OTHER -> 1

\* int(t * fs) after fs = fs / intFactor
IntSamplesDuc(fs, t, res) == (fs * t) \div (2 * IntFactor(res))

\* the rising edge over n points, in SampleDen-ths: zeros, a linear ramp
\* 0..1, or the raised cosine (abstracted to the ramp's grid); a one-point
\* rising edge is 0
EdgeUp(n, shape) ==
    [k \in 1..n |->
        IF shape = "rectangular" \/ n = 1 THEN 0
        ELSE ((k - 1) * SampleDen) \div (n - 1)]
\* the falling edge 1..0; a one-point falling edge is 1
EdgeDown(n, shape) ==
    [k \in 1..n |->
        IF shape = "rectangular" THEN 0
        ELSE IF n = 1 THEN SampleDen
        ELSE ((n - k) * SampleDen) \div (n - 1)]
Ones(n) == [k \in 1..n |-> SampleDen]

\* (mutant: q is the envelope itself)
iq_pulse_envelope_q_as_i(fs, rise, fall, pw, shape, res) ==
    IF shape \notin Shapes THEN [err |-> "InvalidShape", i |-> <<>>, q |-> <<>>]
    ELSE
    LET rSamples == IntSamplesDuc(fs, rise, res)
        fSamples == IntSamplesDuc(fs, fall, res)
        pwSamples == TruncDiv(fs * pw - IntFactor(res) * (rSamples + fSamples),
                              2 * IntFactor(res))
    IN  IF pwSamples < 0 THEN [err |-> "ValueError", i |-> <<>>, q |-> <<>>]
        ELSE [err |-> "none",
              i |-> EdgeUp(rSamples, shape) \o Ones(pwSamples)
                      \o EdgeDown(fSamples, shape),
              q |-> EdgeUp(rSamples, shape) \o Ones(pwSamples)
                      \o EdgeDown(fSamples, shape)]

\* iq_pulse_envelope: i is the envelope, q is the envelope times zero
iq_pulse_envelope(fs, rise, fall, pw, shape, res) ==
    IF shape \notin Shapes THEN [err |-> "InvalidShape", i |-> <<>>, q |-> <<>>]
    ELSE
    LET rSamples == IntSamplesDuc(fs, rise, res)
        fSamples == IntSamplesDuc(fs, fall, res)
        pwSamples == TruncDiv(fs * pw - IntFactor(res) * (rSamples + fSamples),
                              2 * IntFactor(res))
    IN  IF pwSamples < 0 THEN [err |-> "ValueError", i |-> <<>>, q |-> <<>>]
        ELSE [err |-> "none",
              i |-> EdgeUp(rSamples, shape) \o Ones(pwSamples)
                      \o EdgeDown(fSamples, shape),
              q |-> Zeros(rSamples + pwSamples + fSamples)]

\* (mutant: q in the even places, i in the odd ones)
iq_wfm_combiner_swapped(i, q) ==
    IF Len(q) = Len(i)
    THEN Ok([k \in 1..(2 * Len(i)) |->
               IF k % 2 = 1 THEN Wrap16(q[(k + 1) \div 2])
               ELSE Wrap16(i[k \div 2])])
    ELSE Raise("ValueError")

\* iq_wfm_combiner: iq = np.empty(2 * len(i), dtype=np.int16); iq[0::2] = i;
\* iq[1::2] = q.  The slice assignments cast to int16; a q of another length
\* than i makes the second one raise numpy's ValueError, except a q of one
\* element, which numpy broadcasts over the slice (also the empty slice).
iq_wfm_combiner(i, q) ==
    IF Len(q) = Len(i)
    THEN Ok([k \in 1..(2 * Len(i)) |->
               IF k % 2 = 1 THEN Wrap16(i[(k + 1) \div 2])
               ELSE Wrap16(q[k \div 2])])
    ELSE IF Len(q) = 1
    THEN Ok([k \in 1..(2 * Len(i)) |->
               IF k % 2 = 1 THEN Wrap16(i[(k + 1) \div 2])
               ELSE Wrap16(q[1])])
    ELSE Raise("ValueError")

\* iPulse += sampMkr, with sampMkr = ones(len/2) twice
AddMarker(w) == [k \in 1..Len(w) |-> Wrap16(w[k] + 1)]

\* iq_pulse_calculator: lengths are counted in IQ pairs; "idleSamples += rem"
\* names a variable that does not exist, so a nonzero remainder raises
iq_pulse_calculator(fs, rise, fall, pw, shape, pri, res) ==
    IF ~IsIntx(res) THEN PlanFail("InvalidResolution")
    ELSE
    LET configWfm == iq_wfm_combiner(Zeros(240), Zeros(240)).out
        env == iq_pulse_envelope(fs, rise, fall, pw, shape, res)
        pwSamples == Len(env.i)
        extra == IF pwSamples < 120 THEN 120 - pwSamples
                 ELSE 24 - (pwSamples % 24)
        iPulse == check_wfm(env.i \o Zeros(extra), res)
        qPulse == check_wfm(env.q \o Zeros(extra), res)
        iqPulse == iq_wfm_combiner(AddMarker(iPulse.out),
                                   AddMarker(qPulse.out)).out
        idle == IntSamplesDuc(fs, pri, res) - Len(iqPulse) \div 2
                  - Len(configWfm) \div 2
        endIdle == idle - Len(configWfm) \div 2
    IN  IF env.err # "none" THEN PlanFail(env.err)
        ELSE IF iPulse.err # "none" THEN PlanFail(iPulse.err)
        ELSE IF qPulse.err # "none" THEN PlanFail(qPulse.err)
        ELSE IF idle % IdleGran(res) # 0 \/ endIdle % IdleGran(res) # 0
             THEN PlanFail("NameError")
        ELSE [err |-> "none", pwSamples |-> pwSamples, extra |-> extra,
              onLen |-> Len(iqPulse) \div 2, endLen |-> Len(configWfm) \div 2,
              idleHalf |-> 2 * idle, endIdleHalf |-> 2 * endIdle,
              warned |-> FALSE]

\* config_segment_creator: 257 * 24 IQ pairs of ones, markers on 240..479
config_segment_creator(fs, res) ==
    IF ~IsIntx(res) THEN PlanFail("InvalidResolution")
    ELSE
    LET rl == 257 * 24
        i == check_wfm(Ones(rl), res)
        q == check_wfm(Ones(rl), res)
    IN  IF i.err # "none" THEN PlanFail(i.err)
        ELSE IF q.err # "none" THEN PlanFail(q.err)
        ELSE [NoPlan EXCEPT !.err = "none", !.onLen = (2 * Len(i.out)) \div 2]

\* the argument checks of sequence_builder and pulse_sequence_builder
SeqLengthError(isInt, seqLength) ==
    IF ~isInt THEN "NotAnInteger"
    ELSE IF seqLength < 2 \/ seqLength > 512000 THEN "LengthBounds"
    ELSE "none"

\* (mutant: a parameter keyword the instrument does not know)
ActionParamsMisspelt ==
    <<"amplitude", "amplitude", "poffset", "frequency", "cfrequency",
      "preset", "srate", "srun", "srestart", "shold">>

\* the action table of action_table_builder: parameter of action 1..10
ActionParams ==
    <<"amplitude", "amplitude", "poffset", "cfrequency", "cfrequency",
      "preset", "srate", "srun", "srestart", "shold">>

(* ------------------------------ device -------------------------------- *)
\* control-word bits, as sets of bit positions
cmd == {31}
end == {30}
start == {28}
mkr == {24}
data == {}

FullSegment == "#hffffffff"
NoRow == [idx |-> -1, ctrl |-> {}, loop |-> 0, code |-> <<0, 0>>,
          seg |-> 0, arg |-> 0, last |-> 0]

\* (mutant: the row names the segment after the one meant)
SegRowNextSegment(idx, ctrl, loop, segLoop, seg) ==
    [idx |-> idx, ctrl |-> ctrl, loop |-> loop, code |-> <<0, segLoop>>,
     seg |-> seg + 1, arg |-> 0, last |-> FullSegment]

\* stable:data <idx>, <ctrl>, <seq_loop_cnt>, <seg_loop_cnt>, <seg_id>, 0, #hffffffff
SegRow(idx, ctrl, loop, segLoop, seg) ==
    [idx |-> idx, ctrl |-> ctrl, loop |-> loop, code |-> <<0, segLoop>>,
     seg |-> seg, arg |-> 0, last |-> FullSegment]

\* stable:data <idx>, <ctrl>, 0, <command_code 0>, <idle_sample 0>, <idle_delay>, 0
IdleRow(idx, ctrl, delay) ==
    [idx |-> idx, ctrl |-> ctrl, loop |-> 0, code |-> <<0, 0>>,
     seg |-> 0, arg |-> delay, last |-> 0]

\* (mutant: the idle select, 0, in bits 15-0 of the command code)
ConfigRowIdleSelect(idx, ctrl, action) ==
    [idx |-> idx, ctrl |-> ctrl, loop |-> 1, code |-> <<action, 0>>,
     seg |-> 1, arg |-> 0, last |-> FullSegment]

\* stable1:data <idx>, <ctrl>, 1, <action << 16 | 1>, 1, 0, #hffffffff: the
\* command code is kept as <<bits 31-16, bits 15-0>>
ConfigRow(idx, ctrl, action) ==
    [idx |-> idx, ctrl |-> ctrl, loop |-> 1, code |-> <<action, 1>>,
     seg |-> 1, arg |-> 0, last |-> FullSegment]

\* the instrument as the scripts drive it: segments defined and loaded, the
\* size of the sequence defined, the last two sequence-table rows written,
\* the number of action1:delete:all received, the number of actions opened
\* since and the parameters appended to them, and the number of
\* seq:def:new? received
NoDev == [segDef |-> {}, segData |-> {}, seqSize |-> -1, nrows |-> 0,
          row |-> NoRow, prev |-> NoRow, actDel |-> 0, actNew |-> 0,
          actions |-> <<>>, seqNew |-> 0, errq |-> <<>>]

(* ------------------------- the switch driver --------------------------- *)
SwitchModels == {"M9155C", "M9156C", "M9157C", "M9161D"}

\* BaseSwitch.__init__: the number of switch positions of the model; a model
\* the driver does not know raises SwitchError
NumPos(model) ==
    IF model \in {"M9155C", "M9156C"} THEN 2
    ELSE IF model = "M9157C" THEN 6
    ELSE IF model = "M9161D" THEN 4
    ELSE 0

\* (mutant: the route limit of the M9161D is missing)
bank_route_checker_no_4(model, bank, route) ==
    IF bank < 1 \/ bank > 2 THEN "SwitchError"
    ELSE IF model = "M9157C" /\ bank > 1 THEN "SwitchError"
    ELSE IF model \in {"M9155C", "M9156C", "M9161D"} /\ bank > 2 THEN "SwitchError"
    ELSE IF route < 1 \/ route > 6 THEN "SwitchError"
    ELSE IF model \in {"M9155C", "M9156C"} /\ route > 2 THEN "SwitchError"
    ELSE "none"

\* the checks of the bank_route_checker wrapper, in the order of the code
bank_route_checker(model, bank, route) ==
    IF bank < 1 \/ bank > 2 THEN "SwitchError"
    ELSE IF model = "M9157C" /\ bank > 1 THEN "SwitchError"
    ELSE IF model \in {"M9155C", "M9156C", "M9161D"} /\ bank > 2 THEN "SwitchError"
    ELSE IF route < 1 \/ route > 6 THEN "SwitchError"
    ELSE IF model \in {"M9155C", "M9156C"} /\ route > 2 THEN "SwitchError"
    ELSE IF model = "M9161D" /\ route > 4 THEN "SwitchError"
    ELSE "none"

(* ------------------------- the error queue ----------------------------- *)
\* a syst:err? reply as <<sign, number>>; the text after the number is
\* "No error" exactly when the number is 0
NoError == <<"", 0>>

\* the reply to syst:err? of an instrument holding the queue q: the oldest
\* error, or the no-error reply, with the '+' that some instruments print
Reply(q, plus) ==
    LET c == IF q = <<>> THEN 0 ELSE Head(q)
    IN  <<IF c < 0 THEN "-" ELSE IF plus THEN "+" ELSE "", Abs(c)>>

\* syst:err? removes the error it reports
Dequeue(d) == [d EXCEPT !.errq = IF @ = <<>> THEN @ ELSE Tail(@)]

\* .strip().replace('+', '').replace('-', '')
StripSigns(r) == <<"", r[2]>>

\* the reply as the loop of err_check stores it: awg_simple_wfm_download.py
\* only strips white space there, xsa_file_io.py removes the signs too
LoopReply(r, file) == IF file = "xsa" THEN StripSigns(r) ELSE r

ActionDeleteAll(d) == [d EXCEPT !.actDel = @ + 1, !.actNew = 0, !.actions = <<>>]
ActionDefineNew(d) == [d EXCEPT !.actNew = @ + 1]
\* (mutant: the table indexed from 0)
ActionAppendFromZero(d, idx, param) ==
    [d EXCEPT !.actions = Append(@, [idx |-> idx - 1, param |-> param])]
ActionAppend(d, idx, param) ==
    [d EXCEPT !.actions = Append(@, [idx |-> idx, param |-> param])]

TraceDef(d, id) == [d EXCEPT !.segDef = @ \cup {id}]
TraceData(d, id) == [d EXCEPT !.segData = @ \cup {id}]
SeqDeleteAll(d) == [d EXCEPT !.seqSize = -1, !.nrows = 0, !.row = NoRow, !.prev = NoRow]
SeqDefNew(d, n) ==
    [d EXCEPT !.seqSize = n, !.nrows = 0, !.row = NoRow, !.prev = NoRow,
              !.seqNew = @ + 1]
StableData(d, r) == [d EXCEPT !.nrows = @ + 1, !.row = r, !.prev = d.row]

(* ------------------------------- state -------------------------------- *)
VARIABLES script, pc, inp, ret, plan, loc, dev, self

vars == <<script, pc, inp, ret, plan, loc, dev, self>>

\* locals of the running script: the phase search, the pulse being filled
\* (its index p, phase offset and length) and the loop index i of main
NoLoc == [relPhase |-> 0, cycles |-> 0, numPulses |-> 0, p |-> -1, phase |-> 0,
          plen |-> 0, i |-> 0]

NoInp == [res |-> "wsp", wfm |-> <<>>, fs |-> 0, cf |-> 0, pwTime |-> 0, pri |-> 0,
          rise |-> 0, fall |-> 0, shape |-> "rectangular",
          seqLength |-> 0, seqIsInt |-> TRUE, freqIsList |-> TRUE,
          idle |-> 0, q |-> <<>>, i |-> 0, builder |-> "",
          errors |-> <<>>, plus |-> FALSE, model |-> "", bank |-> 0,
          route |-> 0]

InitQuant ==
    /\ script = "quant"
    /\ \E r \in AllRes, n \in 0..MaxWfmLen, s \in 0..MaxStart :
          inp = [NoInp EXCEPT !.res = r, !.wfm = Ramp(n, s)]

InitCw ==
    /\ script = "cw"
    /\ \E r \in DacModes \cup {"bad"}, f \in 1..MaxFs, w \in 0..MaxPwTicks,
          k \in 0..MaxPriIdx :
          inp = [NoInp EXCEPT !.res = r, !.fs = f, !.cf = 100, !.pwTime = w,
                              !.pri = k * PriStep]

InitCoh ==
    /\ script = "coh"
    /\ \E r \in DacModes \cup {"bad"}, f \in 1..MaxFs, c \in {2, 100},
          w \in {0, MaxPwTicks}, k \in 0..MaxPriOff :
          inp = [NoInp EXCEPT !.res = r, !.fs = f, !.cf = c, !.pwTime = w,
                              !.pri = PriBase + k]

\* awg_duc_action_table.py: the resolution and the sequence length
InitAct ==
    /\ script = "act"
    /\ \E r \in {"intx3", "intx48", "wsp"},
          n \in (0..MaxSeqLen) \cup {512000, 512001}, b \in BOOLEAN :
          inp = [NoInp EXCEPT !.res = r, !.fs = MaxFs, !.seqLength = n,
                              !.seqIsInt = b]

\* awg_duc_freq_agile_pulse.py: the pulse, and the frequency list (its
\* length is the sequence length)
InitAgile ==
    /\ script = "agile"
    /\ \E r \in IntxModes \cup {"wsp"}, f \in 1..MaxFs, e \in {0, RiseTicks},
          h \in Shapes \cup {"gaussian"}, w \in {0, MaxPwTicks},
          k \in 0..MaxPriOff, n \in 0..MaxFreqs, b \in BOOLEAN :
          inp = [NoInp EXCEPT !.res = r, !.fs = f, !.cf = 100, !.rise = e,
                              !.fall = e, !.shape = h, !.pwTime = w,
                              !.pri = 24 * (PriBase + k), !.seqLength = n,
                              !.freqIsList = b]

\* pulse_sequence_builder(awg, seqLength, idleSamples, endIdleSamples) called
\* with any sequence length, up to and past the bounds it tests
InitPsb ==
    /\ script = "psb"
    /\ \E n \in (0..MaxFreqs) \cup {170666, 170667, 512000, 512001},
          b \in BOOLEAN, a \in {480, 1000} :
          inp = [NoInp EXCEPT !.res = "intx3", !.seqLength = n, !.seqIsInt = b,
                              !.idle = a]

\* int16 sample streams of up to MaxIqLen samples
Int16Edges == {-32768, 0, 32767}
Streams == UNION {[1..n -> Int16Edges] : n \in 0..MaxIqLen}

\* iq_wfm_combiner(i, q) on two int16 streams
InitIq ==
    /\ script = "iq"
    /\ \E i \in Streams, q \in Streams : inp = [NoInp EXCEPT !.wfm = i, !.q = q]

\* iq_pulse_envelope(fs / intFactor, rise, fall, pw, shape)
InitEnv ==
    /\ script = "env"
    /\ \E r \in {"intx3", "intx12"}, f \in 1..MaxFs, e \in {0, RiseTicks},
          g \in {0, RiseTicks, 3 * RiseTicks}, w \in {0, 13, MaxPwTicks},
          h \in Shapes \cup {"gaussian"} :
          inp = [NoInp EXCEPT !.res = r, !.fs = f, !.rise = e, !.fall = g,
                              !.pwTime = w, !.shape = h]

\* an M8190A object as __init__ leaves it (self.res read from the
\* instrument, no check_resolution yet) and a waveform to check
InitM8190 ==
    /\ script = "m8190"
    /\ \E n \in {0, 120, 240, 320, 384}, s \in 0..MaxStart :
          inp = [NoInp EXCEPT !.wfm = Ramp(n, s)]
    /\ \E r \in {"wpr", "wsp", "intx3", "intx48"} : self = [NoSelf EXCEPT !.res = r]

\* one pass of the row loop of sequence_builder ("act") or
\* pulse_sequence_builder ("agile") at index i of an accepted or rejected
\* seqLength; the passes share nothing but i
InitIter ==
    /\ script = "iter"
    /\ \E n \in {1, 2, 65535, 65536, 512000, 512001},
          i \in {0, 1, 65534, 65535, 511999}, b \in {"act", "agile"} :
          /\ i < n
          /\ inp = [NoInp EXCEPT !.seqLength = n, !.i = i, !.builder = b]

\* err_check(inst) of awg_simple_wfm_download.py ("awg") or xsa_file_io.py
\* ("xsa") on an instrument holding up to MaxErrors errors, which prints the
\* no-error reply with or without a leading '+'
ErrorCodes == {-113, 100}
InitErr ==
    /\ script = "err"
    /\ \E f \in {"awg", "xsa"}, b \in BOOLEAN,
          q \in UNION {[1..n -> ErrorCodes] : n \in 0..MaxErrors} :
          inp = [NoInp EXCEPT !.builder = f, !.plus = b, !.errors = q]

\* ivi-switch.py: a switch module of some model, and the bank and route the
\* connection methods are called with
InitSwitch ==
    /\ script = "switch"
    /\ \E md \in SwitchModels \cup {"M9999"}, b \in 0..MaxBank,
          r \in 0..MaxRoute :
          inp = [NoInp EXCEPT !.model = md, !.bank = b, !.route = r]

Init ==
    /\ \/ InitQuant \/ InitCw \/ InitCoh \/ InitAct \/ InitAgile \/ InitPsb
       \/ InitIq \/ InitEnv
       \/ InitM8190 \/ InitIter \/ InitErr \/ InitSwitch
    /\ script # "m8190" => self = NoSelf
    /\ pc = "start"
    /\ ret = Raise("pending")
    /\ plan = NoPlan
    /\ loc = NoLoc
    /\ dev = [NoDev EXCEPT !.errq = inp.errors]

(* ------------------------ quantizer, called alone ---------------------- *)
QuantCall ==
    /\ script = "quant" /\ pc = "start"
    /\ ret' = check_wfm(inp.wfm, inp.res)
    /\ pc' = "done"
    /\ UNCHANGED <<script, self, inp, plan, loc, dev>>

\* iPulse += sampMkr: the marker value 1 added to every quantised sample
QuantAddMarker ==
    /\ script = "quant" /\ pc = "done" /\ ret.err = "none"
    /\ ret' = [ret EXCEPT !.out = AddMarker(ret.out)]
    /\ pc' = "marked"
    /\ UNCHANGED <<script, self, inp, plan, loc, dev>>

(* ------------------------------ BaseSwitch ----------------------------- *)
\* switch = BaseSwitch(visaAddress): instModel is read from the driver and
\* numPos follows from it; closed and calls stand for the module behind the
\* driver: the channels closed and the number of Route calls received
SwitchInit ==
    /\ script = "switch" /\ pc = "start"
    /\ IF inp.model \in SwitchModels
       THEN /\ self' = [instModel |-> inp.model, numPos |-> NumPos(inp.model),
                        closed |-> {}, calls |-> 0]
            /\ pc' = "ready"
            /\ plan' = plan
       ELSE /\ self' = self
            /\ pc' = "failed"
            /\ plan' = PlanFail("SwitchError")
    /\ UNCHANGED <<script, inp, ret, loc, dev>>

\* switch.CloseConnection(bank=bank, route=route)
SwitchCloseConnection ==
    /\ script = "switch" /\ pc = "ready" /\ loc.i < MaxOps
    /\ LET e == bank_route_checker(self.instModel, inp.bank, inp.route) IN
       IF e # "none"
       THEN /\ ret' = Raise(e)
            /\ self' = self
       ELSE /\ ret' = Ok(<<>>)
            /\ self' = [self EXCEPT !.closed = @ \cup {<<inp.bank, inp.route>>},
                                    !.calls = @ + 1]
    /\ loc' = [loc EXCEPT !.i = @ + 1]
    /\ UNCHANGED <<script, pc, inp, plan, dev>>

\* switch.CheckClosedConnection(bank=bank, route=route)
SwitchCheckClosedConnection ==
    /\ script = "switch" /\ pc = "ready" /\ loc.i < MaxOps
    /\ LET e == bank_route_checker(self.instModel, inp.bank, inp.route) IN
       IF e # "none"
       THEN /\ ret' = Raise(e)
            /\ self' = self
       ELSE /\ ret' = Ok(<<(<<inp.bank, inp.route>> \in self.closed)>>)
            /\ self' = [self EXCEPT !.calls = @ + 1]
    /\ loc' = [loc EXCEPT !.i = @ + 1]
    /\ UNCHANGED <<script, pc, inp, plan, dev>>

(* ------------------------------ err_check ------------------------------ *)
\* the query ahead of the loop: both files remove the signs from its reply
ErrFirstQuery ==
    /\ script = "err" /\ pc = "start"
    /\ ret' = Ok(StripSigns(Reply(dev.errq, inp.plus)))
    /\ dev' = Dequeue(dev)
    /\ pc' = "loop"
    /\ UNCHANGED <<script, self, inp, plan, loc>>

\* while err != '0,"No error"': print or collect err, and query again
ErrLoopQuery ==
    /\ script = "err" /\ pc = "loop"
    /\ ret.out # NoError
    /\ ret' = Ok(LoopReply(Reply(dev.errq, inp.plus), inp.builder))
    /\ dev' = Dequeue(dev)
    /\ loc' = [loc EXCEPT !.i = IF inp.builder = "xsa" THEN @ + 1 ELSE @]
    /\ UNCHANGED <<script, self, pc, inp, plan>>

\* the loop has ended: awg_simple_wfm_download.py prints one more reply,
\* xsa_file_io.py raises ValueError when it collected any error
ErrLoopExit ==
    /\ script = "err" /\ pc = "loop"
    /\ ret.out = NoError
    /\ IF inp.builder = "awg"
       THEN /\ dev' = Dequeue(dev)
            /\ pc' = "done"
            /\ plan' = plan
       ELSE /\ dev' = dev
            /\ pc' = IF loc.i > 0 THEN "failed" ELSE "done"
            /\ plan' = IF loc.i > 0 THEN PlanFail("ValueError") ELSE plan
    /\ UNCHANGED <<script, self, inp, ret, loc>>

(* --------------------- awg_pulse_sequence.py main ---------------------- *)
\* pulseOn, endWfm, idleSamples = cw_pulse_sequence(fs, cf, width, pri, res)
CwPlan ==
    /\ script = "cw" /\ pc = "start"
    /\ plan' = cw_pulse_sequence(inp.fs, inp.cf, inp.pwTime, inp.pri, inp.res)
    /\ pc' = IF plan'.err = "none" THEN "def1" ELSE "failed"
    /\ UNCHANGED <<script, self, inp, ret, loc, dev>>

\* trace:def 1 / trace:data 1 / trace:def 2 / trace:data 2
CwTraceDef ==
    /\ script = "cw" /\ pc \in {"def1", "def2"}
    /\ dev' = TraceDef(dev, IF pc = "def1" THEN 1 ELSE 2)
    /\ pc' = IF pc = "def1" THEN "data1" ELSE "data2"
    /\ UNCHANGED <<script, self, inp, ret, plan, loc>>

CwTraceData ==
    /\ script = "cw" /\ pc \in {"data1", "data2"}
    /\ dev' = TraceData(dev, IF pc = "data1" THEN 1 ELSE 2)
    /\ pc' = IF pc = "data1" THEN "def2" ELSE "seqdel"
    /\ UNCHANGED <<script, self, inp, ret, plan, loc>>

\* seq:delete:all ; seq:def:new? 3
CwSeqDelete ==
    /\ script = "cw" /\ pc = "seqdel"
    /\ dev' = SeqDeleteAll(dev)
    /\ pc' = "seqdef"
    /\ UNCHANGED <<script, self, inp, ret, plan, loc>>

CwSeqDef ==
    /\ script = "cw" /\ pc = "seqdef"
    /\ dev' = SeqDefNew(dev, 3)
    /\ pc' = "row0"
    /\ UNCHANGED <<script, self, inp, ret, plan, loc>>

\* the three stable1:data writes
CwRow0 ==
    /\ script = "cw" /\ pc = "row0"
    /\ dev' = StableData(dev, SegRow(0, start, 1, 1, 1))
    /\ pc' = "row1"
    /\ UNCHANGED <<script, self, inp, ret, plan, loc>>

CwRow1 ==
    /\ script = "cw" /\ pc = "row1"
    /\ dev' = StableData(dev, IdleRow(1, cmd, plan.idleHalf))
    /\ pc' = "row2"
    /\ UNCHANGED <<script, self, inp, ret, plan, loc>>

CwRow2 ==
    /\ script = "cw" /\ pc = "row2"
    /\ dev' = StableData(dev, SegRow(2, end, 0, 1, 2))
    /\ pc' = "done"
    /\ UNCHANGED <<script, self, inp, ret, plan, loc>>

(* ---------------- awg_phase_coherent_radar_gen.py main ----------------- *)
\* cw_pulse_sequence_coherent up to the call of cycle_calculator: the mode
\* test, pwSamples, extra, deltaPhi, and cycles = 1
CohBegin ==
    /\ script = "coh" /\ pc = "start"
    /\ IF inp.res \notin DacModes
       THEN /\ plan' = PlanFail("InvalidResolution")
            /\ pc' = "failed"
            /\ loc' = loc
       ELSE /\ plan' = [NoPlan EXCEPT
                          !.pwSamples = IntSamples(inp.fs, inp.pwTime),
                          !.extra = Extra(IntSamples(inp.fs, inp.pwTime), inp.res)]
            /\ loc' = [loc EXCEPT !.relPhase = RelPhase(inp.cf, inp.pri),
                                  !.cycles = 1]
            /\ pc' = "cycle"
    /\ UNCHANGED <<script, self, inp, ret, dev>>

\* one iteration of the while loop of cycle_calculator: cycles += 1
CohCycleStep ==
    /\ script = "coh" /\ pc = "cycle"
    /\ LoopCond(loc.relPhase, loc.cycles)
    /\ loc.cycles < MaxCycles
    /\ loc' = [loc EXCEPT !.cycles = @ + 1]
    /\ UNCHANGED <<script, self, pc, inp, ret, plan, dev>>

\* the loop has ended: raise when cycles > 3600, else return cycles
CohCycleExit ==
    /\ script = "coh" /\ pc = "cycle"
    /\ ~LoopCond(loc.relPhase, loc.cycles)
    /\ IF loc.cycles > 3600
       THEN /\ plan' = [plan EXCEPT !.err = "phaseCoherentError"]
            /\ pc' = "failed"
            /\ loc' = loc
       ELSE /\ plan' = plan
            /\ loc' = [loc EXCEPT !.numPulses = loc.cycles, !.p = -1]
            /\ pc' = "fill"
    /\ UNCHANGED <<script, self, inp, ret, dev>>

\* one iteration of "for p in range(numPulses)": pulses[p] = check_wfm(temp)
CohFill ==
    /\ script = "coh" /\ pc = "fill"
    /\ loc.p + 1 < loc.numPulses
    /\ LET p == loc.p + 1
           w == CohPulse(plan.pwSamples, plan.extra,
                         PulsePhase(p, loc.relPhase), inp.res)
       IN  IF w.err # "none"
           THEN /\ plan' = [plan EXCEPT !.err = w.err]
                /\ pc' = "failed"
                /\ loc' = loc
           ELSE /\ loc' = [loc EXCEPT !.p = p, !.phase = PulsePhase(p, loc.relPhase),
                                      !.plen = Len(w.out)]
                /\ UNCHANGED <<plan, pc>>
    /\ UNCHANGED <<script, self, inp, ret, dev>>

\* after the loop: endWfm, idleSamples, endIdleSamples, the warning, return
CohFinish ==
    /\ script = "coh" /\ pc = "fill"
    /\ loc.p + 1 >= loc.numPulses
    /\ LET endWfm == check_wfm_dac(Zeros(MinLen(inp.res)), inp.res)
           width == plan.pwSamples + plan.extra
           idle == RoundHalfEven(HalfSamples(inp.fs, inp.pri) - 2 * width)
       IN  IF endWfm.err # "none"
           THEN /\ plan' = [plan EXCEPT !.err = endWfm.err]
                /\ pc' = "failed"
           ELSE /\ plan' = [plan EXCEPT !.err = "none", !.onLen = width,
                              !.endLen = Len(endWfm.out),
                              !.idleHalf = 2 * idle,
                              !.endIdleHalf = 2 * (idle - Len(endWfm.out)),
                              !.warned = MinIdleWarning(2 * idle, inp.fs, inp.res)]
                /\ pc' = "seqdel"
    /\ UNCHANGED <<script, self, inp, ret, loc, dev>>

\* seq:delete:all ; seq:def:new? 2 * pulses.shape[0] + 1
CohSeqDelete ==
    /\ script = "coh" /\ pc = "seqdel"
    /\ dev' = SeqDeleteAll(dev)
    /\ pc' = "seqdef"
    /\ UNCHANGED <<script, self, inp, ret, plan, loc>>

CohSeqDef ==
    /\ script = "coh" /\ pc = "seqdef"
    /\ dev' = SeqDefNew(dev, 2 * loc.numPulses + 1)
    /\ loc' = [loc EXCEPT !.i = 0]
    /\ pc' = IF loc.numPulses > 0 THEN "pdef" ELSE "done"
    /\ UNCHANGED <<script, self, inp, ret, plan>>

\* for i in range(len(pulses)): trace1:def i+1 ; trace1:data i+1
CohTraceDef ==
    /\ script = "coh" /\ pc = "pdef"
    /\ dev' = TraceDef(dev, loc.i + 1)
    /\ pc' = "pdata"
    /\ UNCHANGED <<script, self, inp, ret, plan, loc>>

CohTraceData ==
    /\ script = "coh" /\ pc = "pdata"
    /\ dev' = TraceData(dev, loc.i + 1)
    /\ pc' = "prow"
    /\ UNCHANGED <<script, self, inp, ret, plan, loc>>

\* the data row: start-of-sequence and marker enable for i == 0, else control 0
CohPulseRow ==
    /\ script = "coh" /\ pc = "prow"
    /\ dev' = StableData(dev,
                IF loc.i = 0 THEN SegRow(0, start \cup mkr, 1, 1, 1)
                ELSE SegRow(2 * loc.i, data, 0, 1, loc.i + 1))
    /\ pc' = "pidle"
    /\ UNCHANGED <<script, self, inp, ret, plan, loc>>

\* the idle row: endIdleSamples after the final pulse, idleSamples otherwise
CohIdleRow ==
    /\ script = "coh" /\ pc = "pidle"
    /\ IF loc.i = loc.numPulses - 1
       THEN /\ dev' = StableData(dev, IdleRow(2 * loc.i + 1, cmd, plan.endIdleHalf))
            /\ pc' = "edef"
            /\ loc' = loc
       ELSE /\ dev' = StableData(dev, IdleRow(2 * loc.i + 1, cmd, plan.idleHalf))
            /\ pc' = "pdef"
            /\ loc' = [loc EXCEPT !.i = @ + 1]
    /\ UNCHANGED <<script, self, inp, ret, plan>>

\* the ending waveform: trace:def i+2 ; trace:data i+2 ; its end-of-sequence row
CohEndDef ==
    /\ script = "coh" /\ pc = "edef"
    /\ dev' = TraceDef(dev, loc.i + 2)
    /\ pc' = "edata"
    /\ UNCHANGED <<script, self, inp, ret, plan, loc>>

CohEndData ==
    /\ script = "coh" /\ pc = "edata"
    /\ dev' = TraceData(dev, loc.i + 2)
    /\ pc' = "erow"
    /\ UNCHANGED <<script, self, inp, ret, plan, loc>>

CohEndRow ==
    /\ script = "coh" /\ pc = "erow"
    /\ dev' = StableData(dev, SegRow(2 * loc.i + 2, end, 0, 1, loc.i + 2))
    /\ pc' = "done"
    /\ UNCHANGED <<script, self, inp, ret, plan, loc>>

(* ----------------------------- M8190A --------------------------------- *)
\* awg.set_resolution(res): the instrument answers with the mode it was set to
M8190SetResolution ==
    /\ script = "m8190" /\ loc.i < MaxOps
    /\ \E r \in {"wpr", "wsp", "intx3", "intx48"} :
          self' = check_resolution([self EXCEPT !.res = r]).self
    /\ loc' = [loc EXCEPT !.i = @ + 1]
    /\ pc' = "set"
    /\ UNCHANGED <<script, inp, ret, plan, dev>>

\* awg.check_wfm(wfm)
M8190CheckWfm ==
    /\ script = "m8190" /\ loc.i < MaxOps
    /\ LET c == M8190A_check_wfm(self, inp.wfm)
       IN  self' = c.self /\ ret' = c.ret
    /\ loc' = [loc EXCEPT !.i = @ + 1]
    /\ pc' = "checked"
    /\ UNCHANGED <<script, inp, plan, dev>>

(* --------------------------- iq_wfm_combiner --------------------------- *)
IqCall ==
    /\ script = "iq" /\ pc = "start"
    /\ ret' = iq_wfm_combiner(inp.wfm, inp.q)
    /\ pc' = IF ret'.err = "none" THEN "done" ELSE "failed"
    /\ UNCHANGED <<script, self, inp, plan, loc, dev>>

(* -------------------------- iq_pulse_envelope -------------------------- *)
\* the call returns the pair (i, q)
EnvCall ==
    /\ script = "env" /\ pc = "start"
    /\ LET e == iq_pulse_envelope(inp.fs, inp.rise, inp.fall, inp.pwTime,
                                  inp.shape, inp.res)
       IN  /\ ret' = [err |-> e.err, out |-> <<e.i, e.q>>]
           /\ pc' = IF e.err = "none" THEN "done" ELSE "failed"
    /\ UNCHANGED <<script, self, inp, plan, loc, dev>>

(* ------------------ awg_duc_action_table.py main ----------------------- *)
\* segment = config_segment_creator(fs, res)
ActSegment ==
    /\ script = "act" /\ pc = "start"
    /\ plan' = config_segment_creator(inp.fs, inp.res)
    /\ pc' = IF plan'.err = "none" THEN "def1" ELSE "failed"
    /\ UNCHANGED <<script, self, inp, ret, loc, dev>>

\* trace1:def 1 ; trace1:data 1 (both scripts), trace1:def 2 ; trace1:data 2
DucTraceDef ==
    /\ script \in {"act", "agile"} /\ pc \in {"def1", "def2"}
    /\ dev' = TraceDef(dev, IF pc = "def1" THEN 1 ELSE 2)
    /\ pc' = IF pc = "def1" THEN "data1" ELSE "data2"
    /\ UNCHANGED <<script, self, inp, ret, plan, loc>>

DucTraceData ==
    /\ script \in {"act", "agile"} /\ pc \in {"data1", "data2"}
    /\ dev' = TraceData(dev, IF pc = "data1" THEN 1 ELSE 2)
    /\ pc' = IF pc = "data1" /\ script = "agile" THEN "def2" ELSE "actions"
    /\ UNCHANGED <<script, self, inp, ret, plan, loc>>

\* action_table_builder / action_table_freq_builder: the list test (agile
\* only) and action1:delete:all
ActionBegin ==
    /\ script \in {"act", "agile"} /\ pc = "actions"
    /\ IF script = "agile" /\ ~inp.freqIsList
       THEN /\ plan' = [plan EXCEPT !.err = "NotAList"]
            /\ pc' = "failed"
            /\ UNCHANGED <<dev, loc>>
       ELSE /\ dev' = ActionDeleteAll(dev)
            /\ loc' = [loc EXCEPT !.i = 1]
            /\ pc' = IF script = "agile" /\ inp.seqLength = 0
                     THEN "seqcheck" ELSE "actnew"
            /\ plan' = plan
    /\ UNCHANGED <<script, self, inp, ret>>

\* action1:define:new?
ActionNew ==
    /\ script \in {"act", "agile"} /\ pc = "actnew"
    /\ dev' = ActionDefineNew(dev)
    /\ pc' = "actappend"
    /\ UNCHANGED <<script, self, inp, ret, plan, loc>>

\* action1:append i, <parameter>, <value>
ActionAdd ==
    /\ script \in {"act", "agile"} /\ pc = "actappend"
    /\ dev' = ActionAppend(dev, loc.i,
                IF script = "act" THEN ActionParams[loc.i] ELSE "cfrequency")
    /\ loc' = [loc EXCEPT !.i = @ + 1]
    /\ pc' = IF loc.i < (IF script = "act" THEN Len(ActionParams)
                         ELSE inp.seqLength)
             THEN "actnew" ELSE "seqcheck"
    /\ UNCHANGED <<script, self, inp, ret, plan>>

\* (mutant: the closing row left out of the size)
SeqSizeNoEndRow(s, seqLength) == IF s = "act" THEN seqLength ELSE 3 * seqLength

\* the size handed to seq1:def:new?
SeqSize(s, seqLength) == IF s = "act" THEN seqLength ELSE 3 * seqLength + 1

\* pulse_sequence_builder entered with its arguments bound
PsbCall ==
    /\ script = "psb" /\ pc = "start"
    /\ plan' = [NoPlan EXCEPT !.err = "none", !.idleHalf = 2 * inp.idle,
                              !.endIdleHalf = 2 * (inp.idle - 240)]
    /\ pc' = "seqcheck"
    /\ UNCHANGED <<script, self, inp, ret, loc, dev>>

\* (mutant: seq1:def:new? sent ahead of the argument checks)
SeqEntryDefFirst(d, s, isInt, seqLength) ==
    [err |-> SeqLengthError(isInt, seqLength),
     dev |-> SeqDefNew(d, SeqSize(s, seqLength))]

\* the head of sequence_builder / pulse_sequence_builder: the argument
\* checks, and seq1:def:new? when they pass
SeqEntry(d, s, isInt, seqLength) ==
    LET e == SeqLengthError(isInt, seqLength)
    IN  [err |-> e,
         dev |-> IF e # "none" THEN d ELSE SeqDefNew(d, SeqSize(s, seqLength))]

\* sequence_builder / pulse_sequence_builder: the argument checks, then
\* seq1:def:new? <seqLength> (action table) or <3 * seqLength + 1> (agile)
SeqBegin ==
    /\ script \in {"act", "agile", "psb"} /\ pc = "seqcheck"
    /\ LET r == SeqEntry(dev, script, inp.seqIsInt, inp.seqLength)
           e == r.err IN
       IF e # "none"
       THEN /\ plan' = [plan EXCEPT !.err = e]
            /\ pc' = "failed"
            /\ dev' = r.dev
            /\ loc' = loc
       ELSE /\ dev' = r.dev
            /\ loc' = [loc EXCEPT !.i = 0]
            /\ pc' = IF script = "act" THEN "arow" ELSE "gconfig"
            /\ plan' = plan
    /\ UNCHANGED <<script, self, inp, ret>>

\* (mutant: the middle branch taken up to and including the last index)
ActCtrlNoEnd(i, seqLength) ==
    IF i = 0 THEN cmd \cup start \cup mkr
    ELSE IF i < seqLength THEN cmd \cup mkr
    ELSE cmd \cup mkr \cup end

\* the control word of row i of sequence_builder
ActCtrl(i, seqLength) ==
    IF i = 0 THEN cmd \cup start \cup mkr
    ELSE IF i < seqLength - 1 THEN cmd \cup mkr
    ELSE cmd \cup mkr \cup end

\* sequence_builder: one row per i, with the start flag on the first and the
\* end flag on the last
ActRow ==
    /\ script = "act" /\ pc = "arow"
    /\ dev.nrows < MaxRows
    /\ dev' = StableData(dev,
                ConfigRow(loc.i, ActCtrl(loc.i, inp.seqLength), loc.i + 1))
    /\ loc' = [loc EXCEPT !.i = @ + 1]
    /\ pc' = IF loc.i + 1 < inp.seqLength THEN "arow" ELSE "done"
    /\ UNCHANGED <<script, self, inp, ret, plan>>

(* ---------------- awg_duc_freq_agile_pulse.py main --------------------- *)
\* pulse, config, idle, endIdle = iq_pulse_calculator(...)
AgilePlan ==
    /\ script = "agile" /\ pc = "start"
    /\ plan' = iq_pulse_calculator(inp.fs, inp.rise, inp.fall, inp.pwTime,
                                   inp.shape, inp.pri, inp.res)
    /\ pc' = IF plan'.err = "none" THEN "def1" ELSE "failed"
    /\ UNCHANGED <<script, self, inp, ret, loc, dev>>

\* (mutant: the pulse row written with a 0 control word)
AgileCtrlNoMkr(i, kind) ==
    CASE kind = "config" -> IF i = 0 THEN cmd \cup start ELSE cmd
      [] kind = "pulse" -> data
      [] kind = "idle" -> cmd
      [] OTHER -> data \cup end

\* the control words of pulse_sequence_builder: config row, pulse row, idle
\* row of iteration i, and the closing row
AgileCtrl(i, kind) ==
    CASE kind = "config" -> IF i = 0 THEN cmd \cup start ELSE cmd
      [] kind = "pulse" -> data \cup mkr
      [] kind = "idle" -> cmd
      [] OTHER -> data \cup end

\* pulse_sequence_builder, row 3i: the config segment with action i + 1
AgileConfigRow ==
    /\ script \in {"agile", "psb"} /\ pc = "gconfig"
    /\ dev.nrows < MaxRows
    /\ dev' = StableData(dev,
                ConfigRow(3 * loc.i, AgileCtrl(loc.i, "config"), loc.i + 1))
    /\ pc' = "gpulse"
    /\ UNCHANGED <<script, self, inp, ret, plan, loc>>

\* row 3i + 1: the pulse segment, marker enabled
AgilePulseRow ==
    /\ script \in {"agile", "psb"} /\ pc = "gpulse"
    /\ dev' = StableData(dev, SegRow(3 * loc.i + 1, AgileCtrl(loc.i, "pulse"), 1, 1, 2))
    /\ pc' = "gidle"
    /\ UNCHANGED <<script, self, inp, ret, plan, loc>>

\* row 3i + 2: the idle, endIdleSamples after the last pulse
AgileIdleRow ==
    /\ script \in {"agile", "psb"} /\ pc = "gidle"
    /\ IF loc.i = 0 \/ loc.i < inp.seqLength - 1
       THEN /\ dev' = StableData(dev, IdleRow(3 * loc.i + 2, AgileCtrl(loc.i, "idle"),
                                              plan.idleHalf))
            /\ loc' = [loc EXCEPT !.i = @ + 1]
            /\ pc' = IF loc.i + 1 < inp.seqLength THEN "gconfig" ELSE "done"
       ELSE /\ dev' = StableData(dev, IdleRow(3 * loc.i + 2, AgileCtrl(loc.i, "idle"),
                                              plan.endIdleHalf))
            /\ loc' = loc
            /\ pc' = "gend"
    /\ UNCHANGED <<script, self, inp, ret, plan>>

\* row 3i + 3: the config segment again, closing the sequence
AgileEndRow ==
    /\ script \in {"agile", "psb"} /\ pc = "gend"
    /\ dev' = StableData(dev, SegRow(3 * loc.i + 3, AgileCtrl(loc.i, "end"), 1, 1, 1))
    /\ pc' = "done"
    /\ UNCHANGED <<script, self, inp, ret, plan, loc>>

\* the argument checks, seq1:def:new?, and the first stable1:data of pass i
\* of the loop
IterRow ==
    /\ script = "iter" /\ pc = "start"
    /\ LET r == SeqEntry(dev, inp.builder, inp.seqIsInt, inp.seqLength)
           e == r.err IN
       IF e # "none"
       THEN /\ plan' = [plan EXCEPT !.err = e]
            /\ pc' = "failed"
            /\ dev' = r.dev
       ELSE /\ dev' = StableData(
                        r.dev,
                        IF inp.builder = "act"
                        THEN ConfigRow(inp.i, ActCtrl(inp.i, inp.seqLength),
                                       inp.i + 1)
                        ELSE ConfigRow(3 * inp.i, AgileCtrl(inp.i, "config"),
                                       inp.i + 1))
            /\ pc' = "done"
            /\ plan' = plan
    /\ UNCHANGED <<script, self, inp, ret, loc>>

Next ==
    \/ QuantCall
    \/ ActSegment \/ DucTraceDef \/ DucTraceData \/ ActionBegin \/ ActionNew
    \/ ActionAdd \/ SeqBegin \/ ActRow
    \/ IqCall \/ EnvCall
    \/ M8190SetResolution \/ M8190CheckWfm
    \/ IterRow \/ QuantAddMarker
    \/ ErrFirstQuery \/ ErrLoopQuery \/ ErrLoopExit
    \/ SwitchInit \/ SwitchCloseConnection \/ SwitchCheckClosedConnection
    \/ PsbCall \/ AgilePlan \/ AgileConfigRow \/ AgilePulseRow \/ AgileIdleRow
    \/ AgileEndRow
    \/ CwPlan \/ CwTraceDef \/ CwTraceData \/ CwSeqDelete \/ CwSeqDef
    \/ CwRow0 \/ CwRow1 \/ CwRow2
    \/ CohBegin \/ CohCycleStep \/ CohCycleExit \/ CohFill \/ CohFinish
    \/ CohSeqDelete \/ CohSeqDef \/ CohTraceDef \/ CohTraceData
    \/ CohPulseRow \/ CohIdleRow \/ CohEndDef \/ CohEndData \/ CohEndRow

Spec == Init /\ [][Next]_vars

(* ============================== claims ================================ *)
\* the granularity, minimum length, multiplier and shift the claims state
ClaimGran(r) == CASE r = "wpr" -> 48 [] r = "wsp" -> 64 [] OTHER -> 24
ClaimMinLen(r) == CASE r = "wpr" -> 240 [] r = "wsp" -> 320 [] OTHER -> 120
ClaimMult(r) == CASE r = "wpr" -> 8191 [] r = "wsp" -> 2047 [] OTHER -> 16383
ClaimShift(r) == CASE r = "wpr" -> 2 [] r = "wsp" -> 4 [] OTHER -> 1

QuantDone == script = "quant" /\ pc = "done"

\* C1: a waveform check_wfm returns has its input's sample count, and that
\* count is a multiple of the mode's granularity and at least its minimum
\* length (wpr 48/240, wsp 64/320, intx 24/120).
C1_QuantizedLength ==
    (QuantDone /\ ret.err = "none") =>
        /\ Len(ret.out) = Len(inp.wfm)
        /\ Len(ret.out) % ClaimGran(inp.res) = 0
        /\ Len(ret.out) >= ClaimMinLen(inp.res)

C1_Witness ==
    QuantDone /\ ret.err = "none" /\ IsIntx(inp.res) /\ Len(ret.out) = 144

\* C2: below the minimum length quantize fails with a length error (also
\* when the granularity is violated too), at or above it with a granularity
\* error when the length is no multiple of the granularity, and it succeeds
\* for minLength and minLength + granularity.
C2_LengthBeforeGranularity ==
    (QuantDone /\ inp.res # "bad") =>
        LET rl == Len(inp.wfm) IN
        /\ rl < ClaimMinLen(inp.res) => ret.err = "LengthError"
        /\ (rl >= ClaimMinLen(inp.res) /\ rl % ClaimGran(inp.res) # 0)
              => ret.err = "GranularityError"
        /\ rl \in {ClaimMinLen(inp.res), ClaimMinLen(inp.res) + ClaimGran(inp.res)}
              => ret.err = "none"

C2_Witness ==
    /\ QuantDone /\ inp.res = "wsp"
    /\ Len(inp.wfm) = 319 /\ Len(inp.wfm) % 64 # 0
    /\ ret.err = "LengthError"

\* t is x = num / SampleDen scaled by mult with the fraction dropped
IsTruncation(t, num, mult) ==
    /\ Abs(t) * SampleDen <= Abs(mult * num)
    /\ Abs(mult * num) < (Abs(t) + 1) * SampleDen
    /\ t * num >= 0
    /\ t \in -32768..32767

\* C3: each output sample is binMult * sample truncated toward zero, shifted
\* left by binShift, with (8191, 2) for wpr, (2047, 4) for wsp and
\* (16383, 1) for the intx modes.
C3_TruncateThenShift ==
    (QuantDone /\ ret.err = "none") =>
        \A k \in 1..Len(ret.out) :
            LET unit == Pow2(ClaimShift(inp.res)) IN
            /\ ret.out[k] % unit = 0
            /\ IsTruncation(ret.out[k] \div unit, inp.wfm[k], ClaimMult(inp.res))

C3_Witness ==
    /\ QuantDone /\ ret.err = "none" /\ inp.res = "wpr"
    /\ \E k \in 1..Len(inp.wfm) : inp.wfm[k] = -3 /\ ret.out[k] = -6143 * 4


CwPlanned == script = "cw" /\ pc # "start"
CwReturned == CwPlanned /\ plan.err = "none"

\* C4: in the CW pulse planner a pulse of pwSamples >= minLength samples with
\* pwSamples % granularity = 0 gets no zero padding: the on-time waveform has
\* exactly pwSamples samples.
C4_NoPaddingOnExactMultiple ==
    (CwReturned /\ plan.pwSamples >= ClaimMinLen(inp.res)
                /\ plan.pwSamples % ClaimGran(inp.res) = 0)
        => plan.onLen = plan.pwSamples

\* C5: for every pwSamples >= 0 and valid mode the padded on-time waveform is
\* at least pwSamples long, a multiple of the granularity and at least the
\* minimum length (exactly that when pwSamples is below it), and neither of
\* the planner's quantize calls fails.
C5_PaddedLengthLegal ==
    (CwPlanned /\ inp.res \in {"wpr", "wsp"}) =>
        /\ plan.err = "none"
        /\ plan.onLen >= plan.pwSamples
        /\ plan.onLen % ClaimGran(inp.res) = 0
        /\ plan.onLen >= ClaimMinLen(inp.res)
        /\ plan.pwSamples < ClaimMinLen(inp.res) => plan.onLen = ClaimMinLen(inp.res)
        /\ plan.endLen = ClaimMinLen(inp.res)

C5_Witness ==
    /\ CwReturned /\ inp.res = "wpr"
    /\ plan.pwSamples = 250 /\ plan.onLen = 288

\* C6: the planner returns idleSamples = fs*pri - len(onWaveform) -
\* len(endCapWaveform), so the three add up to fs*pri, and a count below the
\* minimum-idle threshold is only warned about: the plan is still returned.
C6_IdleAccounting ==
    (CwPlanned /\ inp.res \in {"wpr", "wsp"}) =>
        /\ pc # "failed" /\ plan.err = "none"
        /\ 2 * plan.onLen + plan.idleHalf + 2 * plan.endLen = inp.fs * inp.pri
        /\ (pc \in {"row2", "done"}) => dev.row.arg = IF pc = "done"
                                         THEN 0 ELSE plan.idleHalf

C6_Witness ==
    /\ script = "cw" /\ pc = "done" /\ plan.err = "none"
    /\ plan.warned /\ plan.idleHalf < 0
    /\ dev.prev.arg = plan.idleHalf


CohSearched == script = "coh" /\ loc.numPulses > 0
CohFilled ==
    script = "coh" /\ pc \notin {"start", "cycle", "fill", "failed"}

\* C7: the pulse count the phase-coherence calculator returns is the smallest
\* positive n with (deltaPhi * n) mod 360 = 0 (deltaPhi in tenths of a degree:
\* (d * n) mod 3600 = 0), and 1 for deltaPhi = 0.
C7_SmallestWrapCount ==
    CohSearched =>
        /\ (loc.relPhase * loc.numPulses) % 3600 = 0
        /\ \A n \in 1..(loc.numPulses - 1) : (loc.relPhase * n) % 3600 # 0
        /\ loc.relPhase = 0 => loc.numPulses = 1

\* C8: the wraparound search stops by n = 3600: the counter never goes past
\* 3600, and the search ends returning a count or raising the error.
C8_SearchStopsBy3600 ==
    script = "coh" => loc.cycles <= 3600

\* C9: the coherent train has exactly pulseCount pulses, pulse p carries the
\* phase offset p * deltaPhi, and pulseCount * deltaPhi is a multiple of 360
\* degrees.
C9_TrainReturnsToPhaseZero ==
    /\ (script = "coh" /\ pc = "fill" /\ loc.p >= 0) =>
          /\ loc.p < loc.numPulses
          /\ loc.phase = loc.p * loc.relPhase
    /\ CohFilled =>
          /\ loc.numPulses >= 1
          /\ loc.p = loc.numPulses - 1
          /\ loc.phase = (loc.numPulses - 1) * loc.relPhase
          /\ (loc.numPulses * loc.relPhase) % 3600 = 0
          /\ loc.relPhase = ((18 * inp.cf * inp.pri + 5) \div 10) % 3600
    /\ (script = "coh" /\ pc = "done") =>
          /\ Cardinality(dev.segDef) = loc.numPulses + 1
          /\ dev.seqSize = 2 * loc.numPulses + 1

C9_Witness ==
    /\ script = "coh" /\ pc = "done"
    /\ loc.relPhase = 1368 /\ loc.numPulses = 150 /\ loc.phase = 149 * 1368

\* an idle entry: the command flag (bit 31) with the idle select in the
\* command code (bits 15-0 = 0)
IsIdle(r) == 31 \in r.ctrl /\ r.code[2] = 0
Builders == {"cw", "coh", "act", "agile", "psb"}

\* C10: in the sequence table of every builder (CW, coherent, action table,
\* frequency agile) the entries at index 0 and at the last index are not
\* idle, and an idle entry lies strictly between two entries that are not
\* idle: rows are written at consecutive indices, an idle row follows a
\* row that is not idle, and a finished table ends in a row that is not idle.
C10_IdleOnlyBetweenSegments ==
    script \in Builders =>
        /\ dev.nrows > 0 => dev.row.idx = dev.nrows - 1 /\ dev.nrows <= dev.seqSize
        /\ dev.nrows > 1 => dev.prev.idx = dev.nrows - 2
        /\ IsIdle(dev.row) =>
              /\ dev.row.idx # 0
              /\ dev.row.idx # dev.seqSize - 1
              /\ dev.nrows > 1 /\ ~IsIdle(dev.prev)
              /\ pc # "done"
        /\ pc = "done" =>
              /\ dev.nrows = dev.seqSize
              /\ dev.row.idx = dev.seqSize - 1
              /\ ~IsIdle(dev.row)

C10_Witness ==
    /\ script = "agile" /\ pc = "done"
    /\ dev.seqSize = 3 * MaxFreqs + 1
    /\ IsIdle(dev.prev) /\ dev.prev.idx = dev.seqSize - 2

\* C11: in every sequence table written, the start-of-sequence bit (28) is
\* set in entry 0 and in no other entry, the end-of-sequence bit (30) is set
\* in the last entry and in no other entry; middle entries carry neither.
C11_StartAndEndBits ==
    (script \in Builders /\ dev.nrows > 0) =>
        /\ 28 \in dev.row.ctrl <=> dev.row.idx = 0
        /\ 30 \in dev.row.ctrl <=> dev.row.idx = dev.seqSize - 1
        /\ dev.nrows > 1 =>
              /\ 28 \in dev.prev.ctrl <=> dev.prev.idx = 0
              /\ 30 \notin dev.prev.ctrl

C11_Witness ==
    /\ script = "act" /\ pc = "done"
    /\ dev.seqSize = MaxSeqLen /\ dev.row.idx = MaxSeqLen - 1
    /\ 30 \in dev.row.ctrl /\ 28 \notin dev.row.ctrl
    /\ dev.prev.ctrl = cmd \cup mkr

\* C12: a sequence build fails with a length-bounds error whenever the total
\* number of sequence-table entries requested is < 2 or > 512000, so the
\* sequence defined on the device never has more than 512000 entries.
C12_TotalEntriesBounded ==
    (script \in Builders /\ dev.seqSize >= 0) =>
        dev.seqSize >= 2 /\ dev.seqSize <= 512000

\* an entry that triggers an action: the command flag with an action-table
\* index in bits 31-16 of the command code
IsActionRow(r) == 31 \in r.ctrl /\ r.code[1] >= 1

\* C13 (as claimed): every entry whose command code carries an action-table
\* index has the marker-enable bit (24) set in its own control word, in the
\* action-table builder and in the frequency-agile builder.
C13_ActionRowsEnableMarker ==
    (script \in {"act", "agile", "psb"} /\ IsActionRow(dev.row)) =>
        24 \in dev.row.ctrl

\* C13 (amended): an entry that carries an action-table index has the
\* marker-enable bit set in its own control word in the action-table
\* builder, and in the frequency-agile builder is immediately followed by a
\* data entry whose control word has the marker-enable bit set.
C13_MarkerOnActionOrNextRow ==
    /\ (script = "act" /\ IsActionRow(dev.row)) => 24 \in dev.row.ctrl
    /\ (script \in {"agile", "psb"} /\ IsActionRow(dev.row)) => pc = "gpulse"
    /\ (script \in {"agile", "psb"} /\ pc # "gpulse" /\ dev.nrows > 1
          /\ IsActionRow(dev.prev)) =>
          /\ dev.row.idx = dev.prev.idx + 1
          /\ 24 \in dev.row.ctrl /\ 31 \notin dev.row.ctrl

C13_Witness ==
    /\ script = "agile" /\ pc = "gidle"
    /\ IsActionRow(dev.prev) /\ dev.prev.code[1] = MaxFreqs
    /\ 24 \notin dev.prev.ctrl /\ 24 \in dev.row.ctrl

\* C14: the action table is built define-then-append: after one delete-all,
\* the k-th append is preceded by exactly one define-new issued after the
\* (k-1)-th append and is made under index k; indices run 1, 2, ... with no
\* gap, no reuse and no reordering.
C14_DefineThenAppend ==
    script \in {"act", "agile"} =>
        /\ dev.actDel <= 1
        /\ (dev.actNew > 0 \/ Len(dev.actions) > 0) => dev.actDel = 1
        /\ dev.actNew = Len(dev.actions) + (IF pc = "actappend" THEN 1 ELSE 0)
        /\ \A k \in 1..Len(dev.actions) : dev.actions[k].idx = k
        /\ pc = "actnew" => loc.i = Len(dev.actions) + 1

C14_Witness ==
    /\ script = "act" /\ pc = "done"
    /\ dev.actDel = 1 /\ dev.actNew = 10 /\ Len(dev.actions) = 10
    /\ dev.actions[10] = [idx |-> 10, param |-> "shold"]

\* the vocabulary of the claim in the instrument's keywords: amplitude,
\* phase-offset, carrier-frequency, sample-rate, run, restart, hold
ClaimVocabulary ==
    {"amplitude", "poffset", "cfrequency", "srate", "srun", "srestart", "shold"}

C16_OneDefineThenRowsInOrder ==
    script \in Builders =>
        /\ dev.seqNew <= 1
        /\ dev.seqNew = 1 <=> dev.seqSize >= 0
        /\ dev.nrows > 0 =>
              /\ dev.seqNew = 1
              /\ dev.row.idx = dev.nrows - 1
              /\ dev.nrows > 1 => dev.prev.idx = dev.nrows - 2
        /\ dev.seqSize >= 0 =>
              dev.seqSize = CASE script = "coh" -> 2 * loc.numPulses + 1
                              [] script = "act" -> inp.seqLength
                              [] script = "cw" -> 3
                              [] OTHER -> 3 * inp.seqLength + 1
        /\ pc = "done" => dev.nrows = dev.seqSize

C16_Witness ==
    /\ script = "coh" /\ pc = "done"
    /\ loc.numPulses = 144 /\ dev.seqNew = 1
    /\ dev.seqSize = 289 /\ dev.nrows = 289 /\ dev.row.idx = 288

IqReturned == script = "iq" /\ pc = "done"
IqCalled == script = "iq" /\ pc # "start"

\* C17: for i and q of equal length the combiner returns a stream of length
\* 2 * len(i) with out[2k] = i[k] and out[2k+1] = q[k] (0-based), so the even
\* and the odd places give back i and q.
C17_Interleave ==
    (IqCalled /\ Len(inp.wfm) = Len(inp.q)) =>
        /\ IqReturned
        /\ Len(ret.out) = 2 * Len(inp.wfm)
        /\ \A k \in 1..Len(inp.wfm) :
              ret.out[2 * k - 1] = inp.wfm[k] /\ ret.out[2 * k] = inp.q[k]

C17_Witness ==
    /\ IqReturned
    /\ inp.wfm = <<32767, 0, -32768>> /\ inp.q = <<-32768, 32767, 0>>
    /\ ret.out = <<32767, -32768, 0, 32767, -32768, 0>>

\* C18: the combiner fails for every pair of inputs of different lengths,
\* a q of one element and an empty q included, and returns no stream then.
C18_MismatchFails ==
    (IqCalled /\ Len(inp.wfm) # Len(inp.q)) => pc = "failed" /\ ret.err # "none"

\* the planner was called in an interpolated mode with a pulse it can build
AgilePlanned ==
    /\ script = "agile" /\ pc # "start" /\ IsIntx(inp.res)
    /\ plan.err \notin {"InvalidShape", "ValueError"}

\* C19: the frequency-agile planner returns both idle counts rounded up to a
\* multiple of the mode's idle granularity (8, 2, 1, 1 for intx3, intx12,
\* intx24, intx48), and returns normally also when the unrounded count has
\* a nonzero remainder.
C19_IdleCountsRoundedUp ==
    AgilePlanned =>
        /\ plan.err # "NameError"
        /\ (plan.idleHalf \div 2) % IdleGran(inp.res) = 0
        /\ (plan.endIdleHalf \div 2) % IdleGran(inp.res) = 0

EnvCalled == script = "env" /\ pc # "start"
\* riseSamples, fallSamples and the flat-top count of the claim:
\* pulseWidth * fs - riseSamples / 2 - fallSamples / 2, fraction dropped
ClaimRise == (inp.fs * inp.rise) \div (2 * IntFactor(inp.res))
ClaimFall == (inp.fs * inp.fall) \div (2 * IntFactor(inp.res))
ClaimFlatNum == inp.fs * inp.pwTime - IntFactor(inp.res) * (ClaimRise + ClaimFall)
ClaimFlat ==
    IF ClaimFlatNum >= 0 THEN ClaimFlatNum \div (2 * IntFactor(inp.res))
    ELSE -((-ClaimFlatNum) \div (2 * IntFactor(inp.res)))

\* C20: for each of the three shapes the envelope returns I and Q of the
\* same length riseSamples + flatSamples + fallSamples, the flat-top samples
\* of I are all 1 and every sample of Q is 0; any other shape fails with the
\* invalid-shape error.  (A negative flat-top count has no envelope: the
\* call then raises.)
C20_EnvelopeShape ==
    EnvCalled =>
        /\ inp.shape \notin Shapes => pc = "failed" /\ ret.err = "InvalidShape"
        /\ (inp.shape \in Shapes /\ ClaimFlat >= 0) => pc = "done"
        /\ pc = "done" =>
              /\ inp.shape \in Shapes
              /\ Len(ret.out[1]) = ClaimRise + ClaimFlat + ClaimFall
              /\ Len(ret.out[2]) = Len(ret.out[1])
              /\ \A k \in (ClaimRise + 1)..(ClaimRise + ClaimFlat) :
                    ret.out[1][k] = SampleDen
              /\ \A k \in 1..Len(ret.out[2]) : ret.out[2][k] = 0

C20_Witness ==
    /\ script = "env" /\ pc = "done" /\ inp.shape = "trapezoidal"
    /\ ClaimRise = 6 /\ ClaimFall = 20 /\ ClaimFlat = 53
    /\ Len(ret.out[1]) = 79 /\ ret.out[1][1] = 0 /\ ret.out[1][7] = SampleDen
    /\ ret.out[1][79] = 0 /\ ret.out[2][7] = 0

\* a step that is one call of M8190A.check_wfm
M8190Checks == script = "m8190" /\ pc' = "checked" /\ loc'.i = loc.i + 1
\* the quantized waveform the mode's table gives for the input samples
ClaimQuantized(wfm, r) ==
    [k \in 1..Len(wfm) |->
        Wrap16(Wrap16(TruncDiv(ClaimMult(r) * wfm[k], SampleDen))
                 * Pow2(ClaimShift(r)))]

Runs == {"cw", "coh", "act", "agile"}

\* C22: in every download-and-sequence run a row that references a segment
\* id is written only after that id was defined (trace:def) and its data
\* downloaded (trace:data); no row references an id never defined.
C22_SegmentsBeforeRows ==
    script \in Runs =>
        /\ dev.segData \subseteq dev.segDef
        /\ (dev.nrows > 0 /\ ~IsIdle(dev.row)) =>
              dev.row.seg \in dev.segDef /\ dev.row.seg \in dev.segData
        /\ (dev.nrows > 1 /\ ~IsIdle(dev.prev)) =>
              dev.prev.seg \in dev.segDef /\ dev.prev.seg \in dev.segData

C22_Witness ==
    /\ script = "coh" /\ pc = "pidle"
    /\ dev.row.seg = 3 /\ dev.row.idx = 4
    /\ dev.segData = {1, 2, 3} /\ IsIdle(dev.prev)

\* C23: for every accepted seqLength the command code (i + 1) << 16 | 1 of
\* entry i fits an unsigned 32-bit register: the action-table index stays
\* within bits 16-31 (at most 65535) and the selector within bits 0-15.
C23_CommandCodeFits ==
    (dev.nrows > 0 /\ 31 \in dev.row.ctrl) =>
        /\ dev.row.code[1] \in 0..65535
        /\ dev.row.code[2] \in 0..65535

\* C24: every action-table index referenced by a sequence entry was defined
\* and appended by the action-table builder that ran before the sequence
\* builder, for every seqLength the sequence builder accepts.
C24_ReferencedActionsDefined ==
    (script \in {"act", "agile"} /\ IsActionRow(dev.row)) =>
        \E k \in 1..Len(dev.actions) : dev.actions[k].idx = dev.row.code[1]

\* round(fs * pri) as the claim reads it: the nearest integer to half / 2,
\* the even neighbour on a tie
ClaimRound(half) ==
    LET lo == half \div 2
    IN  IF half % 2 = 0 \/ lo % 2 = 0 THEN lo ELSE lo + 1

\* C25: every pulse period of the coherent train has round(fs * pri) samples:
\* len(pulse) + idleSamples for a non-final pulse and len(pulse) +
\* endIdleSamples + len(endWfm) for the final one (each pulse written has that
\* length, and the idle rows carry those counts); in the frequency-agile
\* sequence configLen + pulseLen + idleSamples and configLen + pulseLen +
\* endIdleSamples + configLen are equal.
C25_PeriodsHaveEqualLength ==
    /\ (script = "coh" /\ pc \notin {"start", "cycle", "fill", "failed"}) =>
          LET period == 2 * ClaimRound(HalfSamples(inp.fs, inp.pri))
          IN  /\ loc.plen = plan.onLen
              /\ 2 * plan.onLen + plan.idleHalf = period
              /\ 2 * plan.onLen + plan.endIdleHalf + 2 * plan.endLen = period
              /\ IsIdle(dev.row) =>
                    2 * plan.onLen + dev.row.arg
                      + (IF dev.row.idx = 2 * loc.numPulses - 1
                         THEN 2 * plan.endLen ELSE 0) = period
    /\ (script = "agile" /\ pc \notin {"start", "failed"}) =>
          /\ 2 * (plan.endLen + plan.onLen) + plan.idleHalf
               = 2 * (plan.endLen + plan.onLen) + plan.endIdleHalf
                   + 2 * plan.endLen
          /\ (IsIdle(dev.row) /\ dev.row.idx = 3 * inp.seqLength - 1) =>
                dev.row.arg = plan.idleHalf - 2 * plan.endLen
          /\ (IsIdle(dev.row) /\ dev.row.idx < 3 * inp.seqLength - 1) =>
                dev.row.arg = plan.idleHalf

\* the final idle row of a coherent train whose period is a tie (fs * pri
\* ends in .5) has been written
C25_Witness ==
    /\ script = "coh" /\ pc = "edef"
    /\ HalfSamples(inp.fs, inp.pri) % 2 = 1
    /\ IsIdle(dev.row) /\ dev.row.arg = plan.endIdleHalf
    /\ plan.endIdleHalf > 0 /\ loc.numPulses > 1

RECURSIVE ClaimGcd(_, _)
ClaimGcd(a, b) == IF b = 0 THEN a ELSE ClaimGcd(b, a % b)

\* C26: for every deltaPhi that is a multiple of 0.1 degree in [0, 360) the
\* wraparound search succeeds with pulseCount = 3600 / gcd(10 * deltaPhi, 3600)
\* (gcd(0, 3600) = 3600), so the convergence error is never raised.
C26_PulseCountIsGcdQuotient ==
    (script = "coh" /\ pc \notin {"start", "cycle"} /\ inp.res \in DacModes) =>
        /\ plan.err # "phaseCoherentError"
        /\ loc.numPulses = 3600 \div ClaimGcd(loc.relPhase, 3600)

\* C27: a builder that rejects its argument (seqLength not an integer, below
\* 2 or above 512000; freq not a list) raises before it sends anything: the
\* step that fails leaves the device's tables as they were, and a builder
\* called on an untouched device leaves it untouched.
C27_RejectionSendsNothing ==
    [][((pc \in {"seqcheck", "actions"} \/ (script = "iter" /\ pc = "start"))
          /\ pc' = "failed") =>
            /\ dev' = dev
            /\ script \in {"psb", "iter"} => dev' = NoDev]_vars

\* pulse_sequence_builder has rejected seqLength = 512001
C27_Witness ==
    /\ script = "psb" /\ pc = "failed" /\ plan.err = "LengthBounds"
    /\ inp.seqLength = 512001 /\ inp.seqIsInt /\ dev = NoDev

\* C28: for every sample in [-1, 1] and every mode the quantised value fits a
\* signed 16-bit integer without overflow and its low binShift bits are zero,
\* so adding the marker value 1 sets bit 0 only: bits 1..15, and with them
\* the DAC sample bits binShift..15, stay as they were.
C28_MarkerTouchesBitZeroOnly ==
    (script = "quant" /\ pc \in {"done", "marked"} /\ ret.err = "none") =>
        \A k \in 1..Len(ret.out) :
            LET unit == Pow2(ClaimShift(inp.res))
                v == TruncDiv(ClaimMult(inp.res) * inp.wfm[k], SampleDen) * unit
            IN  /\ v \in -32768..32767
                /\ v % unit = 0
                /\ pc = "done" => ret.out[k] = v
                /\ pc = "marked" =>
                      /\ ret.out[k] \in -32768..32767
                      /\ ret.out[k] % 2 = 1
                      /\ ret.out[k] \div 2 = v \div 2
                      /\ ret.out[k] \div unit = v \div unit

\* full-scale samples of a wpr waveform carry the marker
C28_Witness ==
    /\ script = "quant" /\ pc = "marked" /\ inp.res = "wpr"
    /\ \E k \in 1..Len(ret.out) : inp.wfm[k] = SampleDen /\ ret.out[k] = 32765
    /\ \E k \in 1..Len(ret.out) : inp.wfm[k] = -2 /\ ret.out[k] = -16379

\* C29: err_check drains the error queue and stops: for any number of queued
\* errors, and whether the empty queue answers 0,"No error" or
\* +0,"No error", the loop is left after the first no-error reply, that is,
\* the loop test never finds a no-error reply different from 0,"No error".
C29_LoopEndsOnNoErrorReply ==
    (script = "err" /\ pc = "loop" /\ ret.out[2] = 0) => ret.out = NoError

\* the banks and routes of each model, as the claim lists them
ClaimBanks(model) == IF model = "M9157C" THEN 1..1 ELSE 1..2
ClaimRoutes(model) ==
    CASE model = "M9157C" -> 1..6
      [] model \in {"M9155C", "M9156C"} -> 1..2
      [] OTHER -> 1..4

\* C30: the bank/route check of the switch driver accepts (bank, route)
\* exactly when the model has them (M9157C: bank 1, routes 1..6; M9155C and
\* M9156C: banks 1..2, routes 1..2; M9161D: banks 1..2, routes 1..4); a
\* rejected call raises SwitchError and the wrapped CloseChannel /
\* IsChannelClosed is not invoked; every accepted route is at most numPos.
C30_BankRouteAccepted ==
    (script = "switch" /\ loc.i > 0) =>
        LET available == /\ inp.bank \in ClaimBanks(self.instModel)
                         /\ inp.route \in ClaimRoutes(self.instModel)
        IN  /\ available <=> ret.err = "none"
            /\ available => (inp.route <= self.numPos /\ self.calls = loc.i)
            /\ ~available =>
                  (ret.err = "SwitchError" /\ self.calls = 0 /\ self.closed = {})

\* route 4 of bank 2 of an M9161D was closed and then read back as closed
C30_Witness ==
    /\ script = "switch" /\ pc = "ready" /\ self.instModel = "M9161D"
    /\ inp.bank = 2 /\ inp.route = 4
    /\ self.closed = {<<2, 4>>} /\ self.calls = 2 /\ ret = Ok(<<TRUE>>)

====
